---- MODULE Spec2Model ----
(***************************************************************************)
(* Model of launcher/input_handler.py: the InputHandler class that turns   *)
(* raw gamepad / keyboard samples into InputEvent values, filters them in  *)
(* _send_event and runs the polling loop _event_loop on a worker thread    *)
(* that start() and stop() control; its constructor and the detection of   *)
(* the gamepad vendor, _detect_gamepad_type, which configure it.           *)
(*                                                                         *)
(* Numbers.  Python floats are modelled as exact rationals with the fixed  *)
(* denominator Scale (65535, the span of the raw range): the value v is    *)
(* the integer v * Scale.  A digital 1 is therefore Scale, the stick value *)
(* of raw sample c is 2c + 1 and the trigger value of raw sample c is      *)
(* c + 32768.  The deadzone is kept in thousandths.  No comparison of the  *)
(* model falls on a float rounding boundary for the samples enumerated.    *)
(***************************************************************************)
EXTENDS Integers, Sequences, FiniteSets, TLC

\* ------------------------------------------------------------------ bounds
MaxWorkers == 2
MaxBatch == 2
MaxStreak == 11
MaxPads == 2

\* --------------------------------------------------------------- constants
Scale == 65535
AXIS_MIN == -32768
AXIS_MAX == 32767
NoValue == 999999
max_consecutive_errors == 5

Abs(x) == IF x < 0 THEN -x ELSE x
Min2(a, b) == IF a < b THEN a ELSE b
Max2(a, b) == IF a > b THEN a ELSE b

\* The Button enumeration.
Button ==
  {"A", "B", "X", "Y", "LB", "RB", "LT", "RT", "START", "SELECT", "HOME",
   "DPAD_UP", "DPAD_DOWN", "DPAD_LEFT", "DPAD_RIGHT", "L3", "R3",
   "LEFT_X", "LEFT_Y", "RIGHT_X", "RIGHT_Y", "LEFT_TRIGGER", "RIGHT_TRIGGER"}

\* The class-level table BUTTON_MAPPING as written in the class body.  A
\* value is the sequence of the controls the code maps to: one control, or
\* the pair of a d-pad hat axis.
BASE_BUTTON_MAPPING ==
  [c \in {"BTN_SOUTH", "BTN_EAST", "BTN_NORTH", "BTN_WEST", "BTN_TL", "BTN_TR",
          "BTN_SELECT", "BTN_START", "BTN_MODE", "BTN_THUMBL", "BTN_THUMBR",
          "ABS_X", "ABS_Y", "ABS_RX", "ABS_RY", "ABS_Z", "ABS_RZ",
          "ABS_HAT0Y", "ABS_HAT0X"} |->
     CASE c = "BTN_SOUTH" -> <<"A">>
       [] c = "BTN_EAST" -> <<"B">>
       [] c = "BTN_NORTH" -> <<"Y">>
       [] c = "BTN_WEST" -> <<"X">>
       [] c = "BTN_TL" -> <<"LB">>
       [] c = "BTN_TR" -> <<"RB">>
       [] c = "BTN_SELECT" -> <<"SELECT">>
       [] c = "BTN_START" -> <<"START">>
       [] c = "BTN_MODE" -> <<"HOME">>
       [] c = "BTN_THUMBL" -> <<"L3">>
       [] c = "BTN_THUMBR" -> <<"R3">>
       [] c = "ABS_X" -> <<"LEFT_X">>
       [] c = "ABS_Y" -> <<"LEFT_Y">>
       [] c = "ABS_RX" -> <<"RIGHT_X">>
       [] c = "ABS_RY" -> <<"RIGHT_Y">>
       [] c = "ABS_Z" -> <<"LEFT_TRIGGER">>
       [] c = "ABS_RZ" -> <<"RIGHT_TRIGGER">>
       [] c = "ABS_HAT0Y" -> <<"DPAD_UP", "DPAD_DOWN">>
       [] c = "ABS_HAT0X" -> <<"DPAD_LEFT", "DPAD_RIGHT">>]

\* DEFAULT_KEYBOARD_MAPPING.
DEFAULT_KEYBOARD_MAPPING ==
  [k \in {"KEY_UP", "KEY_DOWN", "KEY_LEFT", "KEY_RIGHT", "KEY_ENTER",
          "KEY_SPACE", "KEY_ESC", "KEY_BACKSPACE", "KEY_TAB", "KEY_RETURN",
          "KEY_W", "KEY_S", "KEY_A", "KEY_D", "KEY_J", "KEY_K", "KEY_I",
          "KEY_U", "KEY_Q", "KEY_E", "KEY_1", "KEY_2"} |->
     CASE k \in {"KEY_UP", "KEY_W"} -> "DPAD_UP"
       [] k \in {"KEY_DOWN", "KEY_S"} -> "DPAD_DOWN"
       [] k \in {"KEY_LEFT", "KEY_A"} -> "DPAD_LEFT"
       [] k \in {"KEY_RIGHT", "KEY_D"} -> "DPAD_RIGHT"
       [] k \in {"KEY_ENTER", "KEY_SPACE", "KEY_J"} -> "A"
       [] k \in {"KEY_ESC", "KEY_BACKSPACE", "KEY_K"} -> "B"
       [] k \in {"KEY_TAB", "KEY_2"} -> "SELECT"
       [] k \in {"KEY_RETURN", "KEY_1"} -> "START"
       [] k = "KEY_I" -> "Y"
       [] k = "KEY_U" -> "X"
       [] k = "KEY_Q" -> "LB"
       [] k = "KEY_E" -> "RB"]

\* A slip in the lookup: a code that is not in the table falls back to A.
MapGet_Default(mapping, code) == IF code \in DOMAIN mapping THEN mapping[code] ELSE <<"A">>

\* dict.get(code): the mapped controls, or the empty sequence for None.
MapGet(mapping, code) == IF code \in DOMAIN mapping THEN mapping[code] ELSE <<>>

\* InputEvent(button, state, is_analog); the timestamp plays no part in any
\* decision of the handler and is left out.
InputEvent(button, state, is_analog) ==
  [button |-> button, state |-> state, is_analog |-> is_analog]

\* ------------------------------------------------------------------- state
VARIABLES
  debug,              \* __debug__: FALSE when the interpreter runs with -O
  GAMEPAD_AVAILABLE,  \* module flag set while importing the inputs library
  on_input_event,     \* "callable" or "None"
  _running,           \* self._running
  _thread,            \* self._thread: 0 for None, else the Thread object
  _last_events,       \* self._last_events: Button -> value, NoValue if absent
  _deadzone,          \* self._deadzone, in thousandths
  BUTTON_MAPPING,     \* the class attribute BUTTON_MAPPING (a shared dict)
  _keyboard_mapping,  \* self._keyboard_mapping
  _gamepad_type,      \* self._gamepad_type
  gamepads,           \* the list devices.gamepads gave to the last detection
  pc,                 \* position of every Thread object in _event_loop
  batch,              \* events of get_gamepad() the for loop has yet to visit
  error_count,        \* the local error_count of every _event_loop
  ownerPc,            \* position of the owning thread: "idle" or in stop()'s join
  op,                 \* history: the operation of the last step
  arg,                \* history: the raw sample or event it was given
  before,             \* history: _last_events when it began
  calls,              \* history: the events it passed to the callback, in order
  fails,              \* history: for each of them, whether the callback raised
  raised,             \* history: whether it raised to its caller
  cbStreak,           \* history: callback failures in a row, up to now
  errStreak,          \* history: of every _event_loop, the ticks in a row,
                      \* up to now, that ended in "except Exception"
  norm,               \* history: the last call of _normalize_axis_value
  keysUp              \* history: the keys whose last keyboard sample, if
                      \* any, was a release

config == <<debug, GAMEPAD_AVAILABLE, on_input_event, _deadzone, BUTTON_MAPPING,
            _keyboard_mapping, _gamepad_type, gamepads>>
life == <<_running, _thread, pc, batch, error_count, ownerPc, errStreak>>
hist == <<op, arg, before, calls, fails, raised, cbStreak, norm, keysUp>>
vars == <<config, life, _last_events, hist>>

Workers == 1..MaxWorkers

\* The sample the history holds when the operation took none.
NoArg == [ev_type |-> "", code |-> "", state |-> 0]

\* ---------------------------------------------------------- the dispatcher
\* The outcome of a handler: the cache it leaves, the events it passed to the
\* callback, whether each of those calls raised, whether it raised itself.
Outcome(cache, cs, fs, r) == [cache |-> cache, calls |-> cs, fails |-> fs, raised |-> r]

\* A slip in the threshold: 1% where _send_event has 5%.
AnalogInsignificant_OnePercent(last_state, state) == 100 * Abs(state - last_state) < Scale

\* _send_event, analog branch: the change is below the 5% threshold.
AnalogInsignificant(last_state, state) == 20 * Abs(state - last_state) < Scale

\* A slip in the debounce: a repeated state is never recognised.
DigitalUnchanged_Never(last_state, state) == FALSE

\* _send_event, digital branch: the state did not change.
DigitalUnchanged(last_state, state) == last_state = state

\* _send_event, the trailing "if __debug__: raise" that stands after the
\* try statement: a bare raise with no active exception is a RuntimeError.
TrailingRaise == debug

\* A slip in the order: the cache is written after the callback, and so
\* not at all when the callback raises.
CacheAfterForward_OnSuccess(cache, event, cbRaises) ==
  IF cbRaises THEN cache ELSE [cache EXCEPT ![event.button] = event.state]

\* _send_event, lines 1198-1206: the cache is written, then the callback is
\* called inside its own try statement; whatever the callback does, the
\* cache holds the new value from before the call on.
CacheAfterForward(cache, event, cbRaises) == [cache EXCEPT ![event.button] = event.state]

\* The effective (second) definition of _send_event.  cbRaises tells whether
\* the callback raises when it is called.
_send_event(cache, event, cbRaises) ==
  IF on_input_event # "callable"
  THEN Outcome(cache, <<>>, <<>>, FALSE)
  ELSE LET last_state == cache[event.button] IN
       IF event.is_analog /\ last_state # NoValue
       THEN IF AnalogInsignificant(last_state, event.state)
            THEN Outcome(cache, <<>>, <<>>, FALSE)
            ELSE Outcome(CacheAfterForward(cache, event, cbRaises),
                         <<event>>, <<cbRaises>>, TrailingRaise)
       ELSE IF ~event.is_analog /\ DigitalUnchanged(last_state, event.state)
            THEN Outcome(cache, <<>>, <<>>, FALSE)
            ELSE Outcome(CacheAfterForward(cache, event, cbRaises),
                         <<event>>, <<cbRaises>>, TrailingRaise)

\* A slip in the sign test: the pair is read the other way round.
DpadPressed_Swapped(button_info, state) == IF state > 0 THEN button_info[1] ELSE button_info[2]

\* _process_dpad_event: the control of the hat pair a nonzero state presses.
DpadPressed(button_info, state) == IF state < 0 THEN button_info[1] ELSE button_info[2]

\* _process_dpad_event.  cb[k] tells whether the k-th callback call raises.
\* Whatever _send_event raises is caught and logged, and ends the method.
_process_dpad_event(cache, button_info, state, cb) ==
  IF state = 0
  THEN LET s1 == _send_event(cache, InputEvent(button_info[1], 0, FALSE), cb[1]) IN
       IF s1.raised
       THEN Outcome(s1.cache, s1.calls, s1.fails, FALSE)
       ELSE LET s2 == _send_event(s1.cache, InputEvent(button_info[2], 0, FALSE),
                                  cb[Len(s1.calls) + 1])
            IN Outcome(s2.cache, s1.calls \o s2.calls, s1.fails \o s2.fails, FALSE)
  ELSE LET s == _send_event(cache, InputEvent(DpadPressed(button_info, state), Scale, FALSE),
                            cb[1])
       IN Outcome(s.cache, s.calls, s.fails, FALSE)

\* A slip in the scaling: the value is left in [0, 1].
_normalize_axis_value_ZeroToOne(value, min_val, max_val) ==
  LET clamped_value == Max2(min_val, Min2(value, max_val))
      span == max_val - min_val
      x == clamped_value - min_val
  IN x * (Scale \div span) + (x * (Scale % span)) \div span

\* _normalize_axis_value for min_val < max_val: clamp, scale to [0, 1], then
\* to [-1, 1]: (2 (clamped - min) - span) / span, in units of 1/Scale (exact
\* when span divides Scale, as the raw range of the sticks does).
_normalize_axis_value(value, min_val, max_val) ==
  LET clamped_value == Max2(min_val, Min2(value, max_val))
      span == max_val - min_val
      x == 2 * (clamped_value - min_val) - span
  IN x * (Scale \div span) + (x * (Scale % span)) \div span

\* A slip in the trigger formula: the clamp to [0, 1] is left out.
TriggerNormalized_Unclamped(raw_value) == raw_value + 32768

\* The trigger formula of _process_analog_axis, before the deadzone.
TriggerNormalized(raw_value) == Max2(0, Min2(Scale, raw_value + 32768))

\* A slip in the deadzone test: the default 0.2 instead of self._deadzone.
BelowDeadzone_Default(state) == 1000 * state < 200 * Scale

\* state < self._deadzone, the deadzone being in thousandths.
BelowDeadzone(state) == 1000 * state < _deadzone * Scale

TriggerAxes == {"ABS_Z", "ABS_RZ", "ABS_BRAKE", "ABS_GAS"}

\* _process_analog_axis: <<button, state>>, or <<>> for (None, None).
_process_analog_axis(axis_name, button_info, raw_value) ==
  IF Len(button_info) # 1
  THEN <<>>
  ELSE IF axis_name \in TriggerAxes
       THEN LET state == TriggerNormalized(raw_value)
            IN <<button_info[1], IF BelowDeadzone(state) THEN 0 ELSE state>>
       ELSE LET normalized == _normalize_axis_value(raw_value, AXIS_MIN, AXIS_MAX)
            IN <<button_info[1], IF BelowDeadzone(Abs(normalized)) THEN 0 ELSE normalized>>

\* str(event.ev_type).upper() for the categories the inputs library reports.
Upper(ev_type) ==
  CASE ev_type = "Key" -> "KEY"
    [] ev_type = "Absolute" -> "ABSOLUTE"
    [] ev_type = "Sync" -> "SYNC"
    [] OTHER -> ev_type

\* A slip in the filter ahead of _send_event: 10% where the code has 1%.
BelowOnePercent_TenPercent(last_state, state) ==
  last_state # NoValue /\ 10 * Abs(last_state - state) < Scale

\* _process_gamepad_event, the 1% filter ahead of _send_event.
BelowOnePercent(last_state, state) == last_state # NoValue /\ 100 * Abs(last_state - state) < Scale

\* _process_gamepad_event, its except clause: log, then "if __debug__: raise".
Reraise(r) == r /\ debug

\* _process_gamepad_event.
_process_gamepad_event(cache, event, cb) ==
  IF ~GAMEPAD_AVAILABLE
  THEN Outcome(cache, <<>>, <<>>, FALSE)
  ELSE LET event_type == Upper(event.ev_type)
           button_info == MapGet(BUTTON_MAPPING, event.code)
       IN
       IF event_type = "KEY"
       THEN IF Len(button_info) # 1
            THEN Outcome(cache, <<>>, <<>>, FALSE)
            ELSE LET s == _send_event(cache,
                            InputEvent(button_info[1], IF event.state # 0 THEN Scale ELSE 0, FALSE),
                            cb[1])
                 IN Outcome(s.cache, s.calls, s.fails, Reraise(s.raised))
       ELSE IF event_type = "ABSOLUTE"
       THEN IF Len(button_info) = 0
            THEN Outcome(cache, <<>>, <<>>, FALSE)
            ELSE IF event.code \in {"ABS_HAT0Y", "ABS_HAT0X"} /\ Len(button_info) = 2
            THEN _process_dpad_event(cache, button_info, event.state, cb)
            ELSE LET a == _process_analog_axis(event.code, button_info, event.state) IN
                 IF a = <<>>
                 THEN Outcome(cache, <<>>, <<>>, FALSE)
                 ELSE IF BelowOnePercent(cache[a[1]], a[2])
                 THEN Outcome(cache, <<>>, <<>>, FALSE)
                 ELSE LET s == _send_event(cache, InputEvent(a[1], a[2], TRUE), cb[1])
                      IN Outcome(s.cache, s.calls, s.fails, Reraise(s.raised))
       ELSE Outcome(cache, <<>>, <<>>, FALSE)

\* The effective (second) definition of _process_keyboard_event.  A sample
\* that is not a key, or whose state is 0 (a release), ends the method; a
\* mapped key in any other state is sent on as a press of its control.  The
\* codes are taken in upper case, as the inputs library reports them.
_process_keyboard_event(cache, event, cbRaises) ==
  IF event.ev_type # "Key" \/ event.state = 0
  THEN Outcome(cache, <<>>, <<>>, FALSE)
  ELSE IF event.code \notin DOMAIN _keyboard_mapping
  THEN Outcome(cache, <<>>, <<>>, FALSE)
  ELSE LET button == _keyboard_mapping[event.code]
           s == _send_event(cache, InputEvent(button, Scale, FALSE), cbRaises)
       IN Outcome(s.cache, s.calls, s.fails, Reraise(s.raised))

\* Callback failures in a row after the calls of one step, counted up to cap.
RECURSIVE StreakAfter(_, _, _)
StreakAfter(n, fs, cap) ==
  IF fs = <<>> THEN n
  ELSE StreakAfter(IF Head(fs) THEN Min2(n + 1, cap) ELSE 0, Tail(fs), cap)

\* ------------------------------------------------------------------ inputs
\* Raw values of a stick axis, chosen so that their normalised values are
\* out of range (-40000), inside the default deadzone (0), and apart by less
\* than 1% (8000, 8200), by between 1% and 5% (8000, 9000) and by more than
\* 5% (8000, 10000): a drift 8000, 9000, 10000 is made of steps below 5%.
StickRaws == {-40000, 0, 8000, 8200, 9000, 10000}

\* Raw values of a trigger: released, inside the default deadzone, just
\* above it, and above the range.
TriggerRaws == {-32768, -20000, -19000, 40000}

RawSample(ev_type, code, state) == [ev_type |-> ev_type, code |-> code, state |-> state]

\* Raw samples of the digital controls: a mapped and an unmapped button, the
\* vertical d-pad hat, an unmapped axis and a category that is neither a key
\* nor an absolute axis.
DigitalSamples ==
  {RawSample("Key", c, v) : c \in {"BTN_SOUTH", "BTN_TL2"}, v \in {0, 1, 2}}
  \cup {RawSample("Absolute", "ABS_HAT0Y", v) : v \in {-1, 0, 1}}
  \cup {RawSample("Absolute", "ABS_MISC", 1), RawSample("Sync", "SYN_REPORT", 0)}

\* Raw samples of the analog controls: a stick and a trigger.
AnalogSamples ==
  {RawSample("Absolute", "ABS_X", v) : v \in StickRaws}
  \cup {RawSample("Absolute", "ABS_Z", v) : v \in TriggerRaws}

\* Digital events given to _send_event directly.
DigitalEvents == {InputEvent("A", v * Scale, FALSE) : v \in {0, 1}}

\* Analog events given to _send_event directly: 0.0, just below 0.05
\* (3276 / 65535), just above it, and 0.25.
AnalogEvents == {InputEvent("LEFT_X", v, TRUE) : v \in {0, 3276, 3277, 16384}}

\* An event as the history records it.
EventArg(event) ==
  [ev_type |-> IF event.is_analog THEN "analog" ELSE "digital",
   code |-> event.button, state |-> event.state]

\* ---------------------------------------------------------- initial states
\* The module is imported with or without a working inputs library, and the
\* handler is constructed with a callable while no gamepad is connected:
\* the detection that __init__ runs when GAMEPAD_AVAILABLE finds an empty
\* list, and is not run otherwise.
InitConfig ==
  /\ debug \in BOOLEAN
  /\ GAMEPAD_AVAILABLE \in BOOLEAN
  /\ on_input_event = "callable"
  /\ _deadzone = 200
  /\ BUTTON_MAPPING = BASE_BUTTON_MAPPING
  /\ _keyboard_mapping = DEFAULT_KEYBOARD_MAPPING
  /\ gamepads = <<>>
  /\ _gamepad_type = IF GAMEPAD_AVAILABLE THEN "none" ELSE "unknown"

InitHandler ==
  /\ _running = FALSE
  /\ _thread = 0
  /\ _last_events = [b \in Button |-> NoValue]
  /\ pc = [w \in Workers |-> "unborn"]
  /\ batch = [w \in Workers |-> <<>>]
  /\ error_count = [w \in Workers |-> 0]
  /\ ownerPc = "idle"
  /\ errStreak = [w \in Workers |-> 0]

InitHist ==
  /\ op = "init"
  /\ arg = NoArg
  /\ before = [b \in Button |-> NoValue]
  /\ calls = <<>>
  /\ fails = <<>>
  /\ raised = FALSE
  /\ cbStreak = 0
  /\ norm = [value |-> 0, min_val |-> 0, max_val |-> 0, result |-> NoValue, error |-> ""]
  /\ keysUp = {}

Init == InitConfig /\ InitHandler /\ InitHist

\* What a step that ran a handler leaves: the cache and the history.  The
\* callback failures in a row are counted up to cap.
Ran(name, a, o, cap) ==
  /\ _last_events' = o.cache
  /\ op' = name
  /\ arg' = a
  /\ before' = _last_events
  /\ calls' = o.calls
  /\ fails' = o.fails
  /\ raised' = o.raised
  /\ cbStreak' = StreakAfter(cbStreak, o.fails, cap)
  /\ UNCHANGED <<norm, keysUp>>

CallbackOutcomes == [1..2 -> BOOLEAN]

\* ------------------------------------- direct calls, as the unit tests make
CallSendEvent(events, cap) ==
  \E event \in events, cbRaises \in BOOLEAN :
    /\ ownerPc = "idle" /\ ~_running
    /\ Ran("_send_event", EventArg(event), _send_event(_last_events, event, cbRaises), cap)
    /\ UNCHANGED <<config, life>>

CallProcessGamepadEvent(samples, cap) ==
  \E event \in samples, cb \in CallbackOutcomes :
    /\ ownerPc = "idle" /\ ~_running
    /\ Ran("_process_gamepad_event", event,
           _process_gamepad_event(_last_events, event, cb), cap)
    /\ UNCHANGED <<config, life>>

CallProcessDpadEvent(axes, cap) ==
  \E axis_name \in axes, state \in {-1, 0, 1}, cb \in CallbackOutcomes :
    /\ ownerPc = "idle" /\ ~_running
    /\ Ran("_process_dpad_event", RawSample("Absolute", axis_name, state),
           _process_dpad_event(_last_events, BUTTON_MAPPING[axis_name], state, cb), cap)
    /\ UNCHANGED <<config, life>>

\* Keyboard samples: two mapped keys with different controls and a key that
\* is not mapped, released (0), pressed (1) and repeating (2); and a sample
\* that is not a key.
KeyboardSamples ==
  {RawSample("Key", k, v) : k \in {"KEY_ENTER", "KEY_ESC", "KEY_F1"}, v \in {0, 1, 2}}
    \cup {RawSample("Sync", "SYN_REPORT", 0)}

\* A direct call of _process_keyboard_event.  keysUp records the keys whose
\* latest sample was a release.
CallProcessKeyboardEvent(samples, cap) ==
  \E event \in samples, cbRaises \in BOOLEAN :
    /\ ownerPc = "idle" /\ ~_running
    /\ LET o == _process_keyboard_event(_last_events, event, cbRaises) IN
       /\ _last_events' = o.cache
       /\ op' = "_process_keyboard_event"
       /\ arg' = event
       /\ before' = _last_events
       /\ calls' = o.calls
       /\ fails' = o.fails
       /\ raised' = o.raised
       /\ cbStreak' = StreakAfter(cbStreak, o.fails, cap)
    /\ keysUp' = IF event.ev_type # "Key" THEN keysUp
                 ELSE IF event.state = 0 THEN keysUp \cup {event.code}
                 ELSE keysUp \ {event.code}
    /\ UNCHANGED <<config, life, norm>>

\* The keyboard, called directly.
NextKeyboard == CallProcessKeyboardEvent(KeyboardSamples, 0)

SpecKeyboard == Init /\ [][NextKeyboard]_vars

\* The digital controls, called directly.
NextDispatch ==
  \/ CallSendEvent(DigitalEvents, 0)
  \/ CallProcessGamepadEvent(DigitalSamples, 0)
  \/ CallProcessDpadEvent({"ABS_HAT0Y"}, 0)

SpecDispatch == Init /\ [][NextDispatch]_vars

\* The analog controls, called directly.
NextAnalog ==
  \/ CallSendEvent(AnalogEvents, 0)
  \/ CallProcessGamepadEvent(AnalogSamples, 0)

SpecAnalog == Init /\ [][NextAnalog]_vars

\* One button and a callback whose failures in a row are counted.
NextCallback ==
  \/ CallSendEvent(DigitalEvents, MaxStreak)
  \/ CallProcessGamepadEvent({RawSample("Key", "BTN_SOUTH", v) : v \in {0, 1}}, MaxStreak)

SpecCallback == Init /\ [][NextCallback]_vars

\* --------------------------------------------------------------- lifecycle
\* Thread.is_alive(): started and not yet finished.
is_alive(w) == pc[w] \notin {"unborn", "unstarted", "done"}

\* The positions of a thread that is inside the while loop of _event_loop.
LoopPcs == {"loop", "read", "proc", "frame", "retry", "cooldown"}

\* A call of start() or stop() as the history records it: the state the
\* handler was in when the call was made.
CallArg == [ev_type |-> "call", code |-> IF _running THEN "Running" ELSE "Stopped", state |-> 0]

\* A step of the worker w as the history records it.
WorkerArg(w) == [ev_type |-> "worker", code |-> "", state |-> w]

History(name, a, r) ==
  /\ op' = name
  /\ arg' = a
  /\ before' = _last_events
  /\ calls' = <<>>
  /\ fails' = <<>>
  /\ raised' = r
  /\ cbStreak' = cbStreak
  /\ UNCHANGED <<norm, keysUp>>

\* A slip in the guard of start(): a running handler is not recognised.
AlreadyRunning_Never == FALSE

\* start(), line 1293: the handler is already running.
AlreadyRunning == _running

\* stop(), line 1336: the handler is already stopped.
AlreadyStopped == ~_running

\* A slip in stop(): the flag is restored when the worker outlives the join.
RunningAfterStop_RestoredOnTimeout(alive) == alive

\* stop(): the value of _running it returns with, whether or not the worker
\* is still alive when join() returns.
RunningAfterStop(alive) == FALSE

\* start().  At most maxSpawn Thread objects are created in a behaviour.
\* Thread.start() either starts the thread, which is then alive when start()
\* looks, or raises; in that case _running is reset and join() is called on
\* the Thread that never started, which raises in turn, so that start() ends
\* before "self._thread = None".
start(maxSpawn) ==
  /\ ownerPc = "idle"
  /\ IF AlreadyRunning
     THEN /\ History("start", CallArg, FALSE)
          /\ UNCHANGED <<config, life, _last_events>>
     ELSE \E w \in Workers, started \in BOOLEAN :
            /\ w <= maxSpawn
            /\ pc[w] = "unborn" /\ \A v \in Workers : v < w => pc[v] # "unborn"
            /\ _running' = started
            /\ _thread' = w
            /\ pc' = [pc EXCEPT ![w] = IF started THEN "loop" ELSE "unstarted"]
            /\ History("start", CallArg, ~started)
            /\ UNCHANGED <<config, batch, error_count, ownerPc, errStreak, _last_events>>

\* stop() up to its join(): the no-op, or the stop flag and the decision to
\* wait for the worker.
stop ==
  /\ ownerPc = "idle"
  /\ IF AlreadyStopped
     THEN /\ History("stop", CallArg, FALSE)
          /\ UNCHANGED <<config, life, _last_events>>
     ELSE IF _thread # 0 /\ is_alive(_thread)
     THEN /\ _running' = FALSE
          /\ ownerPc' = "join"
          /\ History("stop.join", CallArg, FALSE)
          /\ UNCHANGED <<config, _thread, pc, batch, error_count, errStreak, _last_events>>
     ELSE /\ _running' = RunningAfterStop(FALSE)
          /\ History("stop", CallArg, FALSE)
          /\ UNCHANGED <<config, _thread, pc, batch, error_count, ownerPc, errStreak, _last_events>>

\* stop(): join(timeout=2.0) returns, because the worker has finished or
\* because the two seconds have passed, and stop() returns.
stop_join_returns ==
  /\ ownerPc = "join"
  /\ ownerPc' = "idle"
  /\ _running' = RunningAfterStop(is_alive(_thread))
  /\ History("stop", arg, FALSE)
  /\ UNCHANGED <<config, _thread, pc, batch, error_count, errStreak, _last_events>>

\* A slip in the except clause: too many errors in a row end the loop.
AfterError_GivesUp(count) == IF count >= max_consecutive_errors THEN "done" ELSE "loop"

\* _event_loop, the except clause of the loop body: where the thread goes
\* once error_count has been incremented to count.
AfterError(count) == IF count >= max_consecutive_errors THEN "cooldown" ELSE "loop"

\* _event_loop, "except Exception": count the error and leave the tick.
TickError(w) ==
  /\ error_count' = [error_count EXCEPT ![w] = @ + 1]
  /\ pc' = [pc EXCEPT ![w] = AfterError(error_count[w] + 1)]
  /\ batch' = [batch EXCEPT ![w] = <<>>]
  /\ errStreak' = [errStreak EXCEPT ![w] = @ + 1]

\* _event_loop, "while self._running": enter the next tick or leave.
loop_test(w) ==
  /\ pc[w] = "loop"
  /\ pc' = [pc EXCEPT ![w] = IF ~_running THEN "done"
                             ELSE IF GAMEPAD_AVAILABLE THEN "read" ELSE "frame"]
  /\ History("_event_loop.while", WorkerArg(w), FALSE)
  /\ UNCHANGED <<config, _running, _thread, batch, error_count, ownerPc, errStreak, _last_events>>

\* get_gamepad() returns a batch of raw events.
read_returns(w, samples) ==
  \E n \in 1..MaxBatch : \E events \in [1..n -> samples] :
    /\ pc[w] = "read"
    /\ pc' = [pc EXCEPT ![w] = "proc"]
    /\ batch' = [batch EXCEPT ![w] = events]
    /\ History("get_gamepad", WorkerArg(w), FALSE)
    /\ UNCHANGED <<config, _running, _thread, error_count, ownerPc, errStreak, _last_events>>

\* get_gamepad() raises UnpluggedError or OSError: warn and sleep a second.
\* The tick did not end in "except Exception"; error_count is left as it is.
read_unplugged(w) ==
  /\ pc[w] = "read"
  /\ pc' = [pc EXCEPT ![w] = "retry"]
  /\ errStreak' = [errStreak EXCEPT ![w] = 0]
  /\ History("get_gamepad.unplugged", WorkerArg(w), TRUE)
  /\ UNCHANGED <<config, _running, _thread, batch, error_count, ownerPc, _last_events>>

\* get_gamepad() raises another exception: an unexpected error of the tick.
read_fails(w) ==
  /\ pc[w] = "read"
  /\ TickError(w)
  /\ History("get_gamepad.error", WorkerArg(w), TRUE)
  /\ UNCHANGED <<config, _running, _thread, ownerPc, _last_events>>

\* time.sleep(1) returns and "continue" goes back to the loop test.
retry(w) ==
  /\ pc[w] = "retry"
  /\ pc' = [pc EXCEPT ![w] = "loop"]
  /\ History("_event_loop.retry", WorkerArg(w), FALSE)
  /\ UNCHANGED <<config, _running, _thread, batch, error_count, ownerPc, errStreak, _last_events>>

\* The body of "for event in events", once: the event goes through
\* _process_gamepad_event when its category is Key or Absolute; what that
\* raises ends the for loop and is an error of the tick.  The handler and
\* the callback it calls run as one step: they run on the worker thread, and
\* the owning thread touches only _running and _thread.
process(w) ==
  \E cb \in CallbackOutcomes :
    LET event == Head(batch[w])
        o == IF event.ev_type \in {"Key", "Absolute"}
             THEN _process_gamepad_event(_last_events, event, cb)
             ELSE Outcome(_last_events, <<>>, <<>>, FALSE)
    IN /\ pc[w] = "proc"
       /\ Ran("_event_loop.process", event, o, 0)
       /\ IF o.raised
          THEN TickError(w)
          ELSE /\ batch' = [batch EXCEPT ![w] = Tail(@)]
               /\ pc' = [pc EXCEPT ![w] = IF Tail(batch[w]) = <<>> THEN "frame" ELSE "proc"]
               /\ UNCHANGED <<error_count, errStreak>>
       /\ UNCHANGED <<config, _running, _thread, ownerPc>>

\* The end of a tick without error: sleep the rest of the frame and reset
\* error_count.
frame(w) ==
  /\ pc[w] = "frame"
  /\ pc' = [pc EXCEPT ![w] = "loop"]
  /\ error_count' = [error_count EXCEPT ![w] = 0]
  /\ errStreak' = [errStreak EXCEPT ![w] = 0]
  /\ History("_event_loop.frame", WorkerArg(w), FALSE)
  /\ UNCHANGED <<config, _running, _thread, batch, ownerPc, _last_events>>

\* time.sleep(5) returns after too many errors in a row; error_count is reset.
cooldown(w) ==
  /\ pc[w] = "cooldown"
  /\ pc' = [pc EXCEPT ![w] = "loop"]
  /\ error_count' = [error_count EXCEPT ![w] = 0]
  /\ errStreak' = [errStreak EXCEPT ![w] = 0]
  /\ History("_event_loop.cooldown", WorkerArg(w), FALSE)
  /\ UNCHANGED <<config, _running, _thread, batch, ownerPc, _last_events>>

\* The samples the hardware delivers to a running handler.
LoopSamples ==
  {RawSample("Key", "BTN_SOUTH", 1), RawSample("Key", "BTN_SOUTH", 0),
   RawSample("Sync", "SYN_REPORT", 0)}

\* One worker: the polling loop with every outcome of a tick.
NextLoop ==
  \/ start(1)
  \/ stop
  \/ stop_join_returns
  \/ \E w \in Workers :
       \/ loop_test(w)
       \/ read_returns(w, LoopSamples)
       \/ read_unplugged(w)
       \/ read_fails(w)
       \/ retry(w)
       \/ process(w)
       \/ frame(w)
       \/ cooldown(w)

SpecLoop == Init /\ [][NextLoop]_vars

\* Any sequence of start() and stop() calls, and the workers they leave.
Next ==
  \/ start(MaxWorkers)
  \/ stop
  \/ stop_join_returns
  \/ \E w \in Workers :
       \/ loop_test(w)
       \/ read_returns(w, {RawSample("Key", "BTN_SOUTH", 1)})
       \/ read_unplugged(w)
       \/ retry(w)
       \/ process(w)
       \/ frame(w)

Spec == Init /\ [][Next]_vars

\* The next step of the worker w, wherever it is in the loop.
WorkerStep(w) ==
  \/ loop_test(w)
  \/ read_returns(w, {RawSample("Key", "BTN_SOUTH", 1)})
  \/ read_unplugged(w)
  \/ retry(w)
  \/ process(w)
  \/ frame(w)

\* The same behaviours, in which every thread that can take a step
\* eventually takes one: every hardware read and every sleep returns, and
\* the scheduler lets every worker run.  Nothing is required of the owner:
\* start() and stop() are called or not.
SpecLive == Spec /\ \A w \in Workers : WF_vars(WorkerStep(w))

\* -------------------------------------------------------- vendor detection
\* A device name is the sequence of its characters, so that lower() and the
\* "in" of Python strings are computed as the code computes them.
SonyXboxMode ==
  <<"S", "o", "n", "y", " ", "W", "i", "r", "e", "l", "e", "s", "s",
    " ", "C", "o", "n", "t", "r", "o", "l", "l", "e", "r", " ", "(",
    "X", "b", "o", "x", " ", "M", "o", "d", "e", ")">>
XBox360Pad == <<"X", "-", "B", "o", "x", " ", "3", "6", "0", " ", "p", "a", "d">>
ProController == <<"P", "r", "o", " ", "C", "o", "n", "t", "r", "o", "l", "l", "e",
    "r">>
UsbGamepad == <<"U", "S", "B", " ", "G", "a", "m", "e", "p", "a", "d">>

\* The names a connected gamepad may report.
PadNames == {SonyXboxMode, XBox360Pad, ProController, UsbGamepad}

\* The lists devices.gamepads may hold: up to MaxPads descriptors.
PadLists == UNION {[1..n -> PadNames] : n \in 0..MaxPads}

UpperLetters ==
  <<"A", "B", "C", "D", "E", "F", "G", "H", "I", "J", "K", "L", "M",
    "N", "O", "P", "Q", "R", "S", "T", "U", "V", "W", "X", "Y", "Z">>
LowerLetters ==
  <<"a", "b", "c", "d", "e", "f", "g", "h", "i", "j", "k", "l", "m",
    "n", "o", "p", "q", "r", "s", "t", "u", "v", "w", "x", "y", "z">>

\* str.lower(): every upper-case letter becomes its lower-case letter.
lower(name) ==
  [i \in DOMAIN name |->
     IF \E k \in DOMAIN UpperLetters : UpperLetters[k] = name[i]
     THEN LowerLetters[CHOOSE k \in DOMAIN UpperLetters : UpperLetters[k] = name[i]]
     ELSE name[i]]

\* "key in name" for two strings: key occurs in name as a substring.
Contains(name, key) ==
  \E i \in 0..(Len(name) - Len(key)) : SubSeq(name, i + 1, i + Len(key)) = key

sony_ids ==
  {<<"s", "o", "n", "y">>,
   <<"d", "u", "a", "l", "s", "h", "o", "c", "k">>,
   <<"d", "u", "a", "l", "s", "e", "n", "s", "e">>,
   <<"p", "l", "a", "y", "s", "t", "a", "t", "i", "o", "n">>,
   <<"p", "s", "3">>,
   <<"p", "s", "4">>,
   <<"p", "s", "5">>}
nintendo_ids ==
  {<<"n", "i", "n", "t", "e", "n", "d", "o">>,
   <<"s", "w", "i", "t", "c", "h">>,
   <<"j", "o", "y", "-", "c", "o", "n">>,
   <<"j", "o", "y", "c", "o", "n">>,
   <<"p", "r", "o", " ", "c", "o", "n", "t", "r", "o", "l", "l", "e", "r">>}
xbox_ids ==
  {<<"x", "b", "o", "x">>,
   <<"x", "-", "b", "o", "x">>,
   <<"x", "i", "n", "p", "u", "t">>,
   <<"x", "3", "6", "0">>,
   <<"x", "o", "n", "e">>,
   <<"s", "e", "r", "i", "e", "s", " ", "x">>,
   <<"s", "e", "r", "i", "e", "s", " ", "s">>}
xinput_attrs ==
  {<<"x", "i", "n", "p", "u", "t">>,
   <<"x", "-", "b", "o", "x">>,
   <<"x", "b", "o", "x">>}

\* The vendor the name of one descriptor matches, in the order of the if
\* statements of the loop body, or "" when none matches (no break).
VendorOf(gamepad_name) ==
  IF \E sony_id \in sony_ids : Contains(gamepad_name, sony_id) THEN "sony"
  ELSE IF \E nintendo_id \in nintendo_ids : Contains(gamepad_name, nintendo_id) THEN "nintendo"
  ELSE IF \E xbox_id \in xbox_ids : Contains(gamepad_name, xbox_id) THEN "xbox"
  ELSE ""

\* gamepad_name = gamepad.name.lower() and the three tests on it, for each
\* of the names (computed once).
NameVendor == [name \in PadNames |-> VendorOf(lower(name))]

\* The test of the else clause of the loop on gamepad_name, for each name.
NameXinput ==
  [name \in PadNames |-> \E attr \in xinput_attrs : Contains(lower(name), attr)]

\* "for gamepad in gamepads": the vendor of the first descriptor, from the
\* i-th on, whose name matches a keyword, or "" when the loop ends without
\* break and its else clause runs.
RECURSIVE FirstMatch(_, _)
FirstMatch(pads, i) ==
  IF i > Len(pads) THEN ""
  ELSE LET v == NameVendor[pads[i]] IN
       IF v # "" THEN v ELSE FirstMatch(pads, i + 1)

\* The dict sony_mapping as the source writes it: raw code -> the name of
\* the Button member the expression looks up.
sony_mapping ==
  [c \in {"BTN_EAST", "BTN_SOUTH", "BTN_WEST", "BTN_NORTH", "BTN_TL", "BTN_TR",
          "BTN_TL2", "BTN_TR2", "BTN_THUMBL", "BTN_THUMBR", "BTN_SELECT",
          "BTN_START", "BTN_MODE"} |->
     CASE c = "BTN_EAST" -> "B"
       [] c = "BTN_SOUTH" -> "A"
       [] c = "BTN_WEST" -> "Y"
       [] c = "BTN_NORTH" -> "X"
       [] c = "BTN_TL" -> "L1"
       [] c = "BTN_TR" -> "R1"
       [] c = "BTN_TL2" -> "L2"
       [] c = "BTN_TR2" -> "R2"
       [] c = "BTN_THUMBL" -> "L3"
       [] c = "BTN_THUMBR" -> "R3"
       [] c = "BTN_SELECT" -> "SELECT"
       [] c = "BTN_START" -> "START"
       [] c = "BTN_MODE" -> "HOME"]

\* The dict nintendo_mapping: sony_mapping with the A / B pair the other way.
nintendo_mapping ==
  [c \in DOMAIN sony_mapping |->
     CASE c = "BTN_EAST" -> "A"
       [] c = "BTN_SOUTH" -> "B"
       [] OTHER -> sony_mapping[c]]

\* Evaluating the dict display succeeds when every Button.<name> it looks up
\* is a member of the enumeration; otherwise it raises AttributeError.
Builds(mapping) == \A c \in DOMAIN mapping : mapping[c] \in Button

\* dict.update on the table: the entries of mapping replace or extend it.
Update(table, mapping) ==
  [c \in DOMAIN table \cup DOMAIN mapping |->
     IF c \in DOMAIN mapping THEN <<mapping[c]>> ELSE table[c]]

\* What a detection leaves: _gamepad_type, BUTTON_MAPPING, whether it raised.
Detected(type, table, r) == [type |-> type, table |-> table, raised |-> r]

\* One vendor branch of the loop body: the type is set, the dict is built
\* and merged into the table, break.  AttributeError is caught by
\* "except Exception", which sets "error" and raises RuntimeError.
VendorBranch(type, table, mapping) ==
  IF Builds(mapping)
  THEN Detected(type, Update(table, mapping), FALSE)
  ELSE Detected("error", table, TRUE)

\* _detect_gamepad_type.  listed tells whether devices.gamepads could be read
\* and pads is the list it gave.
_detect_gamepad_type(table, listed, pads) ==
  IF ~GAMEPAD_AVAILABLE THEN Detected("unavailable", table, FALSE)
  ELSE IF ~listed THEN Detected("error", table, TRUE)
  ELSE IF pads = <<>> THEN Detected("none", table, FALSE)
  ELSE LET v == FirstMatch(pads, 1) IN
       CASE v = "sony" -> VendorBranch("sony", table, sony_mapping)
         [] v = "nintendo" -> VendorBranch("nintendo", table, nintendo_mapping)
         [] v = "xbox" -> Detected("xbox", table, FALSE)
         [] OTHER ->
              IF NameXinput[pads[Len(pads)]]
              THEN Detected("xinput", table, FALSE)
              ELSE Detected("generic", table, FALSE)

\* A detection as the history records it: whether devices.gamepads could be
\* read, and the deadzone the constructor was given.
DetectArg(listed, deadzone) ==
  [ev_type |-> "call", code |-> IF listed THEN "listed" ELSE "unlisted", state |-> deadzone]

\* The lists the hardware source can give: none when it cannot be read.
Listings == {<<TRUE, pads>> : pads \in PadLists} \cup {<<FALSE, <<>> >>}

\* _detect_gamepad_type called on the handler: redetection.
CallDetectGamepadType ==
  \E l \in Listings :
    LET d == _detect_gamepad_type(BUTTON_MAPPING, l[1], l[2]) IN
    /\ ownerPc = "idle" /\ ~_running
    /\ _gamepad_type' = d.type
    /\ BUTTON_MAPPING' = d.table
    /\ gamepads' = IF GAMEPAD_AVAILABLE THEN l[2] ELSE gamepads
    /\ History("_detect_gamepad_type", DetectArg(l[1], 0), d.raised)
    /\ UNCHANGED <<debug, GAMEPAD_AVAILABLE, on_input_event, _deadzone,
                   _keyboard_mapping, life, _last_events>>

DEFAULT_DEADZONE == 200

\* Deadzones given to the constructor, in thousandths: below the range,
\* 0.0, the 0.1 of the unit tests, the default, 1.0 and above the range.
ConstructorDeadzones == {-100, 0, 100, DEFAULT_DEADZONE, 1000, 1500}

\* __init__: a new handler takes the place of the one there was, which is
\* stopped.  A consumer that is not callable raises TypeError before any
\* attribute is set.  The deadzone argument is not read.  The detection
\* runs only when GAMEPAD_AVAILABLE, and what it raises is logged.
__init__ ==
  \E consumer \in {"callable", "None"}, deadzone \in ConstructorDeadzones :
    /\ ownerPc = "idle" /\ ~_running /\ \A w \in Workers : ~is_alive(w)
    /\ IF consumer # "callable"
       THEN /\ History("__init__", [ev_type |-> "call", code |-> "TypeError", state |-> deadzone], TRUE)
            /\ UNCHANGED <<config, life, _last_events>>
       ELSE \E l \in Listings :
            LET d == IF GAMEPAD_AVAILABLE
                     THEN _detect_gamepad_type(BUTTON_MAPPING, l[1], l[2])
                     ELSE Detected("unknown", BUTTON_MAPPING, FALSE)
            IN /\ on_input_event' = consumer
               /\ _running' = FALSE
               /\ _thread' = 0
               /\ _last_events' = [b \in Button |-> NoValue]
               /\ _deadzone' = 200
               /\ _keyboard_mapping' = DEFAULT_KEYBOARD_MAPPING
               /\ _gamepad_type' = d.type
               /\ BUTTON_MAPPING' = d.table
               /\ gamepads' = IF GAMEPAD_AVAILABLE THEN l[2] ELSE gamepads
               /\ op' = "__init__"
               /\ arg' = DetectArg(l[1], deadzone)
               /\ before' = _last_events
               /\ calls' = <<>>
               /\ fails' = <<>>
               /\ raised' = FALSE
               /\ cbStreak' = cbStreak
               /\ UNCHANGED <<norm, keysUp>>
               /\ UNCHANGED <<debug, GAMEPAD_AVAILABLE, pc, batch, error_count,
                              ownerPc, errStreak>>

\* Construction and redetection with every list of connected gamepads, and
\* stick samples under the deadzone the constructor left.
NextDetect ==
  \/ __init__
  \/ CallDetectGamepadType
  \/ CallProcessGamepadEvent({RawSample("Absolute", "ABS_X", v) : v \in {3000, 5000}}, 0)

SpecDetect == Init /\ [][NextDetect]_vars

\* ----------------------------------------------------------- configuration
\* A slip in the clamp: the lower limit is left out.
ClampDeadzone_UpperOnly(deadzone) == Min2(1000, deadzone)

\* set_deadzone: max(0.0, min(1.0, deadzone)), in thousandths.
ClampDeadzone(deadzone) == Max2(0, Min2(1000, deadzone))

\* set_deadzone: the argument, in thousandths, clamped to [0.0, 1.0].
set_deadzone(deadzone) ==
  /\ ownerPc = "idle" /\ ~_running
  /\ _deadzone' = ClampDeadzone(deadzone)
  /\ History("set_deadzone", [ev_type |-> "call", code |-> "", state |-> deadzone], FALSE)
  /\ UNCHANGED <<debug, GAMEPAD_AVAILABLE, on_input_event, BUTTON_MAPPING,
                 _keyboard_mapping, _gamepad_type, gamepads, life, _last_events>>

\* Deadzones given to set_deadzone, in thousandths: below the range, the
\* 0.1 of the unit tests, and above the range.
DeadzoneArgs == {-100, 100, 1500}

\* Raw samples of every kind of control.  The stick: below the range, 0.09
\* and 0.15 (inside a deadzone of 0.1 and of 0.2) and the 16384 of the unit
\* test.  The trigger: 0.09, 0.13 and above the range.  A button held
\* (state 2) and released, and a hat sample of magnitude 2.
AxisSamples ==
  {RawSample("Absolute", "ABS_X", v) : v \in {-40000, 3000, 5000, 16384}}
  \cup {RawSample("Absolute", "ABS_Z", v) : v \in {-27000, -24000, 40000}}
  \cup {RawSample("Key", "BTN_SOUTH", v) : v \in {0, 2}}
  \cup {RawSample("Absolute", "ABS_HAT0X", 2)}

\* Samples of every kind of control under every deadzone.
NextAxis ==
  \/ \E deadzone \in DeadzoneArgs : set_deadzone(deadzone)
  \/ CallProcessGamepadEvent(AxisSamples, 0)

SpecAxis == Init /\ [][NextAxis]_vars

\* A slip in the validation of the limits: equal limits are let through.
InvalidRange_Strict(min_val, max_val) == min_val > max_val

\* _normalize_axis_value, line 727: the limits it refuses with ValueError.
InvalidRange(min_val, max_val) == min_val >= max_val

\* _normalize_axis_value as a whole, for numeric arguments: the value it
\* returns, in units of 1/Scale, or the error it raises.  A value already in
\* [-1, 1] with the limits -1.0 and 1.0 is returned as it is; equal limits
\* that passed the validation would give 0.0.
NormalizeCall(value, min_val, max_val) ==
  IF InvalidRange(min_val, max_val)
  THEN [result |-> NoValue, error |-> "ValueError"]
  ELSE IF -1 <= value /\ value <= 1 /\ min_val = -1 /\ max_val = 1
  THEN [result |-> value * Scale, error |-> ""]
  ELSE IF min_val = max_val
  THEN [result |-> 0, error |-> ""]
  ELSE [result |-> _normalize_axis_value(value, min_val, max_val), error |-> ""]

\* The raw values and the limits given to _normalize_axis_value: the range
\* of the sticks, the 0..255 of the docstring, the normalised range, and
\* limits that are equal or the wrong way round.
NormalizeValues == {-40000, -32768, -1, 0, 1, 5, 255, 16383, 32767, 40000}
NormalizeRanges ==
  {<<AXIS_MIN, AXIS_MAX>>, <<0, 255>>, <<-1, 1>>, <<5, 5>>, <<10, -10>>,
   <<AXIS_MAX, AXIS_MIN>>}

\* _normalize_axis_value called directly, as test_normalize_axis_value does.
CallNormalizeAxisValue ==
  \E value \in NormalizeValues, r \in NormalizeRanges :
    LET n == NormalizeCall(value, r[1], r[2]) IN
    /\ ownerPc = "idle" /\ ~_running
    /\ norm' = [value |-> value, min_val |-> r[1], max_val |-> r[2],
                result |-> n.result, error |-> n.error]
    /\ op' = "_normalize_axis_value"
    /\ arg' = NoArg
    /\ before' = _last_events
    /\ calls' = <<>>
    /\ fails' = <<>>
    /\ raised' = (n.error # "")
    /\ UNCHANGED <<config, life, _last_events, cbStreak, keysUp>>

NextNormalize == CallNormalizeAxisValue

SpecNormalize == Init /\ [][NextNormalize]_vars

\* The deadzones of test_set_deadzone and of the fixture, in thousandths.
TestDeadzones == {-100, 100, 300, 1500}

\* Any sequence of set_deadzone calls, and analog events given to
\* _send_event under the deadzone they leave.
NextDeadzone ==
  \/ \E deadzone \in TestDeadzones : set_deadzone(deadzone)
  \/ CallSendEvent(AnalogEvents, 0)

SpecDeadzone == Init /\ [][NextDeadzone]_vars

\* ================================================================== claims

\* The last step called _send_event directly with a digital event.
SentDigital == op = "_send_event" /\ arg.ev_type = "digital"

\* C1: a digital event offered to _send_event is passed to the callback if
\* and only if its value differs from the value cached for its control (an
\* absent entry differs from every value): exactly one call then, none
\* otherwise.
C1_DigitalForwardedIffChanged ==
  SentDigital =>
    IF before[arg.code] # arg.state
    THEN calls = <<InputEvent(arg.code, arg.state, FALSE)>>
    ELSE calls = <<>>

\* (A, 1) offered while the cache holds 1 for A: no call.
C1_Witness ==
  /\ SentDigital /\ arg.code = "A" /\ arg.state = Scale
  /\ before["A"] = Scale /\ calls = <<>>

\* The last step gave _process_gamepad_event a sample of a stick or trigger
\* while gamepad support is available, so that it produced an analog event.
ProcessedAnalog ==
  /\ op = "_process_gamepad_event" /\ GAMEPAD_AVAILABLE
  /\ arg.ev_type = "Absolute" /\ arg.code \in {"ABS_X", "ABS_Z"}

\* The analog event the last sample produced: <<button, state>>.
ProducedAnalog == _process_analog_axis(arg.code, BUTTON_MAPPING[arg.code], arg.state)

\* C2: the analog event produced from a raw sample is passed to the callback
\* if and only if no value is cached for its control or the new value is at
\* least 0.05 away from the cached one.
C2_AnalogForwardedIffSignificant ==
  ProcessedAnalog =>
    LET button == ProducedAnalog[1]
        state == ProducedAnalog[2]
        significant == before[button] = NoValue \/ 20 * Abs(state - before[button]) >= Scale
    IN IF significant THEN calls = <<InputEvent(button, state, TRUE)>> ELSE calls = <<>>

\* A stick sample 3% away from the cached value (raw 9000 after 8000) is
\* not passed on.
C2_Witness ==
  /\ ProcessedAnalog /\ arg.code = "ABS_X" /\ arg.state = 9000
  /\ before["LEFT_X"] = 16001 /\ calls = <<>>

\* C3 (as claimed): a callback that raises on every call is called at most
\* 10 times, so never 11 times in a row.
C3_AtMostTenFailingCalls == cbStreak <= 10

\* The last step processed a sample of the vertical d-pad hat, through
\* _process_dpad_event or through _process_gamepad_event.
HatStep ==
  /\ \/ op = "_process_dpad_event"
     \/ op = "_process_gamepad_event" /\ GAMEPAD_AVAILABLE /\ arg.ev_type = "Absolute"
  /\ arg.code = "ABS_HAT0Y"

C6_DpadNeutralReleasesBoth ==
  HatStep /\ arg.state = 0 /\ before["DPAD_UP"] = Scale /\ before["DPAD_DOWN"] = NoValue =>
    calls = <<InputEvent("DPAD_UP", 0, FALSE), InputEvent("DPAD_DOWN", 0, FALSE)>>

\* The callback raised during the last step.
CallbackRaised == \E i \in 1..Len(fails) : fails[i]

\* C4 (as claimed): an error of the callback is never propagated:
\* _send_event and _process_gamepad_event return normally after a callback
\* that raised, and the polling loop, which counts as an error of the tick
\* whatever _process_gamepad_event raises, does not count that tick.
C4_CallbackErrorNotPropagated ==
  /\ op \in {"_send_event", "_process_gamepad_event", "_event_loop.process"}
  /\ CallbackRaised
  => ~raised

\* C7 (as claimed): at every moment at most one thread is inside the
\* polling loop.
C7_AtMostOneWorker == Cardinality({w \in Workers : pc[w] \in LoopPcs}) <= 1

\* What start() and stop() must leave alone when they have nothing to do.
Lifecycle == <<_running, _thread, _last_events, BUTTON_MAPPING, _keyboard_mapping,
               pc, batch, error_count, ownerPc>>

\* C8: start() on a running handler and stop() on a stopped one change
\* neither the running flag, nor the thread reference, nor the cache, nor
\* the mapping tables, and neither spawn nor join a worker.
C8_IdempotentNoOps ==
  [][(op' = "start" /\ _running) \/ (op' = "stop" /\ ownerPc = "idle" /\ ~_running)
       => UNCHANGED Lifecycle]_vars

\* start() was called on a running handler whose worker is in the loop.
C8_Witness ==
  /\ op = "start" /\ arg.code = "Running"
  /\ _running /\ _thread # 0 /\ pc[_thread] \in LoopPcs

\* C9 (as claimed): stop() on a running handler returns with the handler
\* stopped whether or not the worker exited in time, and start() on a
\* stopped handler leaves it running.
C9_StopStopsStartStarts ==
  /\ op = "stop" /\ arg.code = "Running" => ~_running
  /\ op = "start" /\ arg.code = "Stopped" => _running

\* C9 (amended): stop() on a running handler returns with the handler
\* stopped whether or not the worker exited in time; start() on a stopped
\* handler leaves it running exactly when the worker thread started, and
\* otherwise raises and leaves it stopped.
C9_StopStopsStartStartsIfSpawned ==
  /\ op = "stop" /\ arg.code = "Running" => ~_running
  /\ op = "start" /\ arg.code = "Stopped" => (_running <=> ~raised)

\* stop() returned on a timed-out join: the worker is still in the loop.
C9_Witness ==
  /\ op = "stop" /\ arg.code = "Running" /\ ~_running
  /\ _thread # 0 /\ pc[_thread] \in LoopPcs

\* C10: a worker leaves the polling loop only at the loop test, and only
\* when it finds the stop flag set, whatever was raised during its ticks;
\* after a disconnect it sleeps, returns to the loop test and, the handler
\* still running, calls the hardware read again.
C10_LoopSurvivesErrors ==
  [][\A w \in Workers :
       /\ pc[w] \in LoopPcs /\ pc'[w] \notin LoopPcs
            => pc[w] = "loop" /\ ~_running /\ pc'[w] = "done"
       /\ pc[w] = "retry" /\ pc'[w] # "retry" => pc'[w] = "loop"
       /\ pc[w] = "loop" /\ pc'[w] # "loop" /\ _running /\ GAMEPAD_AVAILABLE
            => pc'[w] = "read"]_vars

\* A worker one of whose ticks raised is back in the hardware read of a
\* running handler.
C10_Witness ==
  \E w \in Workers : error_count[w] > 0 /\ pc[w] = "read" /\ _running

\* C11 (as claimed): a worker is in the long pause exactly when its last 5
\* ticks in a row each ended in an unexpected error; a successful tick and a
\* disconnect-retry tick both restart the count, and so does the pause.
C11_CooldownAfterFiveInARow ==
  \A w \in Workers : pc[w] = "cooldown" <=> errStreak[w] = max_consecutive_errors

\* C12 (as claimed): when the worker thread fails to begin executing,
\* start() returns with the running flag false and no thread reference
\* kept, and raises to its caller.
C12_FailedStartRollsBack ==
  [][(\E w \in Workers : pc[w] = "unborn" /\ pc'[w] = "unstarted")
       => ~_running' /\ _thread' = 0 /\ raised']_vars

\* The last step gave a raw sample to the handler that dispatches it.
SampleStep == op \in {"_process_gamepad_event", "_process_dpad_event", "_event_loop.process"}

\* C13: every event the callback receives for a raw sample, whatever the
\* magnitude of the sample, has a value of 0 or 1 when it is digital, a
\* value in [-1.0, 1.0] when it is an analog event of a stick axis and a
\* value in [0.0, 1.0] when it is an analog event of a trigger.
C13_DeliveredValuesInRange ==
  SampleStep =>
    \A i \in 1..Len(calls) :
      LET e == calls[i] IN
      /\ ~e.is_analog => e.state \in {0, Scale}
      /\ e.is_analog /\ e.button \in {"LEFT_X", "LEFT_Y", "RIGHT_X", "RIGHT_Y"}
           => -Scale <= e.state /\ e.state <= Scale
      /\ e.is_analog /\ e.button \in {"LEFT_TRIGGER", "RIGHT_TRIGGER"}
           => 0 <= e.state /\ e.state <= Scale

\* A trigger sample above the raw range was delivered as 1.0.
C13_Witness ==
  /\ SampleStep /\ arg.code = "ABS_Z" /\ arg.state = 40000
  /\ calls = <<InputEvent("LEFT_TRIGGER", Scale, TRUE)>>

\* The value of the last stick or trigger sample after normalisation and
\* before the deadzone, in units of 1/Scale.
NormalizedSample ==
  IF arg.code = "ABS_Z"
  THEN Max2(0, Min2(Scale, arg.state + 32768))
  ELSE 2 * Max2(AXIS_MIN, Min2(AXIS_MAX, arg.state)) + 1

\* The last sample lies inside the deadzone in force: |v| < d for the
\* stick, v < d for the trigger.
InsideDeadzone ==
  IF arg.code = "ABS_Z"
  THEN 1000 * NormalizedSample < _deadzone * Scale
  ELSE 1000 * Abs(NormalizedSample) < _deadzone * Scale

\* C14: a stick or trigger sample inside the deadzone in force is reported
\* as exactly 0.0 (whatever the callback receives for it carries 0.0) and
\* is not dispatched when 0.0 is already cached for its control.
C14_DeadzoneForcesZero ==
  ProcessedAnalog /\ InsideDeadzone =>
    LET button == BUTTON_MAPPING[arg.code][1] IN
    /\ ProducedAnalog = <<button, 0>>
    /\ calls \in {<<>>, <<InputEvent(button, 0, TRUE)>>}
    /\ before[button] = 0 => calls = <<>> /\ _last_events[button] = 0

\* Under a deadzone of 0.1 the stick sample 0.09 found 0.0 cached: no call.
C14_Witness ==
  /\ ProcessedAnalog /\ InsideDeadzone /\ _deadzone = 100
  /\ arg.code = "ABS_X" /\ arg.state = 3000
  /\ before["LEFT_X"] = 0 /\ calls = <<>>

\* C15 (as claimed): the two controls of the vertical hat are never both
\* pressed: after any sequence of samples of that hat, at most one of
\* DPAD_UP and DPAD_DOWN has 1 as its last dispatched state.
C15_DpadPairExclusive ==
  ~(_last_events["DPAD_UP"] = Scale /\ _last_events["DPAD_DOWN"] = Scale)

\* The last step ran a detection that could read the list of gamepads, at
\* construction or on redetection.
DetectStep ==
  /\ op \in {"__init__", "_detect_gamepad_type"}
  /\ GAMEPAD_AVAILABLE /\ arg.code = "listed"

\* C16 (as claimed): the keywords are tried in the order Sony, Nintendo,
\* Xbox and the first match wins: with the single device "Sony Wireless
\* Controller (Xbox Mode)" connected, detection ends with vendor kind sony.
C16_SonyBeforeXbox ==
  DetectStep /\ gamepads = <<SonyXboxMode>> => _gamepad_type = "sony"

\* C17 (as claimed): only the first descriptor is classified.  When its
\* name matches no keyword the result is generic, and when it is an Xbox
\* name the result is xbox, whatever the names of the later descriptors.
C17_FirstDescriptorOnly ==
  DetectStep /\ gamepads # <<>> =>
    /\ gamepads[1] = UsbGamepad => _gamepad_type = "generic"
    /\ gamepads[1] = XBox360Pad => _gamepad_type = "xbox"

\* The overrides of the vendor of a descriptor: those of Sony, those of
\* Nintendo, or none.
OverridesOf(name) ==
  CASE name = SonyXboxMode -> sony_mapping
    [] name = ProController -> nintendo_mapping
    [] OTHER -> [c \in {} |-> ""]

\* C18 (as claimed): after every detection the gamepad table in use is the
\* base table overlaid with the overrides of the vendor detected last, that
\* of the first descriptor, and with nothing else.
C18_TableIsBasePlusLastOverrides ==
  DetectStep /\ gamepads # <<>> =>
    BUTTON_MAPPING = Update(BASE_BUTTON_MAPPING, OverridesOf(gamepads[1]))

\* C19 (as claimed): a construction during which the hardware source cannot
\* be queried, because the inputs library is not usable or because reading
\* devices.gamepads raises, does not raise, leaves the vendor state
\* unavailable and the gamepad table as it was, and installs the keyboard
\* mapping.
C19_UnavailableIsSoft ==
  [][op' = "__init__" /\ arg'.code # "TypeError"
       /\ (~GAMEPAD_AVAILABLE \/ arg'.code = "unlisted")
     => /\ ~raised'
        /\ _gamepad_type' = "unavailable"
        /\ BUTTON_MAPPING' = BUTTON_MAPPING
        /\ _keyboard_mapping' = DEFAULT_KEYBOARD_MAPPING]_vars

\* C20 (as claimed): a constructor given a callable and a deadzone in
\* [0, 1] leaves that deadzone in force (0.2 when it is omitted, which
\* passes DEFAULT_DEADZONE), and given a deadzone outside [0, 1] it raises.
C20_ConstructorDeadzone ==
  op = "__init__" /\ arg.code # "TypeError" =>
    IF 0 <= arg.state /\ arg.state <= 1000
    THEN ~raised /\ _deadzone = arg.state
    ELSE raised

\* The last step called _send_event directly with an analog event.
SentAnalog == op = "_send_event" /\ arg.ev_type = "analog"

\* C21 (as claimed): an analog event whose absolute value is below the
\* deadzone in force, offered to _send_event, does not reach the callback,
\* whether or not a value is cached for its control.
C21_SendEventAppliesDeadzone ==
  SentAnalog /\ 1000 * Abs(arg.state) < _deadzone * Scale => calls = <<>>

\* C24: after any sequence of set_deadzone calls the deadzone lies in
\* [0.0, 1.0]; set_deadzone(x) does not raise and leaves x clamped to
\* [0.0, 1.0] as the deadzone.
C24_SetDeadzoneClamps ==
  /\ 0 <= _deadzone /\ _deadzone <= 1000
  /\ op = "set_deadzone" =>
       /\ ~raised
       /\ _deadzone = IF arg.state < 0 THEN 0
                      ELSE IF arg.state > 1000 THEN 1000 ELSE arg.state

\* set_deadzone(-0.1) left 0.0.
C24_Witness == op = "set_deadzone" /\ arg.state = -100 /\ _deadzone = 0

\* The last step called _normalize_axis_value directly.
Normalized == op = "_normalize_axis_value"

\* C22: _normalize_axis_value raises ValueError whenever min >= max;
\* otherwise it returns a value in [-1.0, 1.0], which is -1.0 for min and
\* for every raw value below it and 1.0 for max and every raw value above.
C22_NormalizeClampsAndValidates ==
  Normalized =>
    IF norm.min_val >= norm.max_val
    THEN norm.error = "ValueError" /\ raised
    ELSE /\ norm.error = "" /\ ~raised
         /\ -Scale <= norm.result /\ norm.result <= Scale
         /\ norm.value <= norm.min_val => norm.result = -Scale
         /\ norm.value >= norm.max_val => norm.result = Scale

\* A raw value above the range of the sticks gave 1.0.
C22_Witness ==
  /\ Normalized /\ norm.value = 40000
  /\ norm.min_val = AXIS_MIN /\ norm.max_val = AXIS_MAX /\ norm.result = Scale

\* The last step normalised a raw value over the range of the sticks.
NormalizedStick == Normalized /\ norm.min_val = AXIS_MIN /\ norm.max_val = AXIS_MAX

ProcessedUnknown ==
  /\ op = "_process_gamepad_event"
  /\ \/ arg.code \notin DOMAIN BUTTON_MAPPING
     \/ arg.ev_type \notin {"Key", "Absolute"}

C26_BatchProcessedToTheEnd ==
  [][\A w \in Workers :
       pc[w] = "proc" /\ batch'[w] # batch[w] => batch'[w] = Tail(batch[w])]_vars

\* The last step called _send_event directly and the event was forwarded.
Forwarded == op = "_send_event" /\ calls # <<>>

\* C27: when _send_event forwards an event the cache holds the event's
\* value from before the callback on, and still holds it when the callback
\* has raised; the same digital value offered again is then suppressed.
C27_CacheWrittenBeforeCallback ==
  /\ Forwarded => _last_events[calls[1].button] = calls[1].state
  /\ SentDigital /\ before[arg.code] = arg.state =>
       calls = <<>> /\ _last_events = before

\* (A, 1) offered again after the callback raised on it: suppressed.
C27_Witness ==
  /\ SentDigital /\ arg.state = Scale /\ before["A"] = Scale
  /\ cbStreak > 0 /\ calls = <<>>

\* C28: after every stick or trigger sample processed, the cached value of
\* its control is less than 0.05 away from the normalised, deadzone-applied
\* value of the sample.
C28_CacheTracksWithinFivePercent ==
  ProcessedAnalog =>
    20 * Abs(_last_events[ProducedAnalog[1]] - ProducedAnalog[2]) < Scale

\* The end of a slow drift: the raw value 10000 found the value of 8000
\* cached, 6% away, and was forwarded.
C28_Witness ==
  /\ ProcessedAnalog /\ arg.code = "ABS_X" /\ arg.state = 10000
  /\ before["LEFT_X"] = 16001
  /\ calls = <<InputEvent("LEFT_X", 20001, TRUE)>>

\* C29 (as claimed): once stop() has set the stop flag, the worker that was
\* running then eventually leaves the polling loop, whatever calls of
\* start() and stop() follow.
C29_StoppedWorkerLeaves ==
  \A w \in Workers : (op = "stop.join" /\ _thread = w) ~> (pc[w] = "done")

\* C30 (as claimed): a press of a mapped key whose latest sample before it
\* was a release is dispatched: the callback is called once, with the key's
\* control and state 1.
C30_PressAfterReleaseDispatched ==
  [][(/\ op' = "_process_keyboard_event"
      /\ arg'.ev_type = "Key" /\ arg'.state = 1
      /\ arg'.code \in keysUp
      /\ arg'.code \in DOMAIN _keyboard_mapping)
     => calls' = <<InputEvent(_keyboard_mapping[arg'.code], Scale, FALSE)>>]_vars

====
